---- MODULE Spec2Model ----
(***************************************************************************)
(* A model of PLIP's interaction detection (plip/modules/detection.py) and *)
(* of the helpers it uses (plip/modules/supplemental.py).                  *)
(*                                                                         *)
(* The functions are pure: a behaviour is one call.  Init draws the call   *)
(* and its arguments from bounded pools, one action per function applies   *)
(* it and stores what it returns in ret.  metal_complexation is stepped    *)
(* through its two loops (grouping, then one metal per step).              *)
(*                                                                         *)
(* Numbers.  The code computes in floating point; the model in fixed       *)
(* point:                                                                  *)
(*   coordinates  integers, unit 0.1 A                                     *)
(*   distances    integers, unit 0.01 A  (floor of the square root)        *)
(*   angles       integers, unit 0.5 degree (nearest whole degree, so      *)
(*                that 109.5 is the integer 219)                           *)
(*   fit scores   integers, unit 0.05 degree; a geometry's mean score is   *)
(*                kept times MeanDen, which every signature count divides  *)
(* A Python dict is modelled as a sequence in insertion order.  The        *)
(* thresholds of the config module are an input of every call: the        *)
(* variable config, which no action changes.                               *)
(***************************************************************************)
EXTENDS Integers, Sequences, FiniteSets, TLC

VARIABLES config, call, args, pc, ret, pairings_dict, cnum, pairings, location, clusters

vars == <<config, call, args, pc, ret, pairings_dict, cnum, pairings, location, clusters>>

(***************************************************************************)
(* Bounds of the model                                                     *)
(***************************************************************************)
\* longest feature list handed to a pairwise detector
MaxFeat == 2
\* longest coordinate tuple handed to euclidean3d
MaxDim == 4
\* most metals, and most metal binding targets, of one call of metal_complexation
MaxMetals == 2
MaxTargets == 7
\* the longest list of doubles given to cluster_doubles
MaxDoubles == 4

(***************************************************************************)
(* Generic helpers                                                         *)
(***************************************************************************)
Abs(x) == IF x < 0 THEN -x ELSE x

\* Python's min(x, y)
Min(x, y) == IF y < x THEN y ELSE x

Range(s) == {s[i] : i \in 1..Len(s)}

\* the sequences over S without repetition, of length at most n
RECURSIVE InjSeqs(_, _)
InjSeqs(S, n) ==
    IF n = 0 THEN {<<>>}
    ELSE LET shorter == InjSeqs(S, n - 1)
         IN shorter \cup
            {Append(s, x) : <<s, x>> \in {q \in shorter \X S : q[2] \notin Range(q[1])}}

\* itertools.product(A, B): A is the outer loop, B the inner one
\* the second sequence as the outer loop
product_second_outer(A, B) ==
    [k \in 1..(Len(A) * Len(B)) |->
        <<A[((k - 1) % Len(A)) + 1], B[((k - 1) \div Len(A)) + 1]>>]

product(A, B) ==
    [k \in 1..(Len(A) * Len(B)) |->
        <<A[((k - 1) \div Len(B)) + 1], B[((k - 1) % Len(B)) + 1]>>]

(***************************************************************************)
(* supplemental.py: mathematical operations                                *)
(***************************************************************************)
\* floor of the square root (np.sqrt and ** 0.5, in fixed point)
RECURSIVE ISqrtIn(_, _, _)
ISqrtIn(n, lo, hi) ==
    IF lo >= hi THEN lo
    ELSE LET mid == (lo + hi + 1) \div 2
         IN IF mid * mid <= n THEN ISqrtIn(n, mid, hi) ELSE ISqrtIn(n, lo, mid - 1)

ISqrt(n) == ISqrtIn(n, 0, 46340)

\* what euclidean3d hands back besides a distance: the None it returns, and
\* the IndexError of an index past the end of a tuple
None == -1
IndexError == -2

\* coordinates are in 0.1 A and the distance in 0.01 A, hence the factor 100
euclidean3d(v1, v2) ==
    IF ~(Len(v1) = 3) /\ Len(v2) = 3 THEN None
    ELSE IF Len(v1) < 3 \/ Len(v2) < 3 THEN IndexError
    ELSE ISqrt(100 * ((v1[1] - v2[1]) * (v1[1] - v2[1])
                    + (v1[2] - v2[2]) * (v1[2] - v2[2])
                    + (v1[3] - v2[3]) * (v1[3] - v2[3])))

\* vector from p1 to p2 (both of the same length in every call of the model)
vector(p1, p2) == [i \in 1..Len(p1) |-> p2[i] - p1[i]]

dot(v1, v2) == v1[1] * v2[1] + v1[2] * v2[2] + v1[3] * v2[3]

\* 10^4 * cos^2 of 0, 1, ..., 90 degrees
Cos2Tab ==
    << 10000, 9997, 9988, 9973, 9951, 9924, 9891, 9851, 9806, 9755, 9698, 9636, 9568,
       9494, 9415, 9330, 9240, 9145, 9045, 8940, 8830, 8716, 8597, 8473, 8346, 8214,
       8078, 7939, 7796, 7650, 7500, 7347, 7192, 7034, 6873, 6710, 6545, 6378, 6210,
       6040, 5868, 5696, 5523, 5349, 5174, 5000, 4826, 4651, 4477, 4304, 4132, 3960,
       3790, 3622, 3455, 3290, 3127, 2966, 2808, 2653, 2500, 2350, 2204, 2061, 1922,
       1786, 1654, 1527, 1403, 1284, 1170, 1060, 955, 855, 760, 670, 585, 506, 432,
       364, 302, 245, 194, 149, 109, 76, 49, 27, 12, 3, 0 >>

\* the whole degree in 0..90 whose cos^2 is nearest to c2 / 10^4
RECURSIVE ArcCos2From(_, _)
ArcCos2From(c2, k) ==
    IF k = 90 THEN 90
    ELSE IF Cos2Tab[k + 2] > c2 THEN ArcCos2From(c2, k + 1)
    ELSE IF Abs(Cos2Tab[k + 1] - c2) <= Abs(Cos2Tab[k + 2] - c2) THEN k ELSE k + 1

\* angle between two vectors, in half degrees (0..360)
vecangle(v1, v2) ==
    IF v1 = v2 THEN 0
    ELSE LET dm == dot(v1, v2)
             ad == Abs(dm)
             c2 == (((ad * 10000) \div dot(v1, v1)) * ((ad * 10000) \div dot(v2, v2)))
                   \div 10000
             k  == ArcCos2From(IF c2 > 10000 THEN 10000 ELSE c2, 0)
         IN IF dm >= 0 THEN 2 * k ELSE 2 * (180 - k)

\* orthogonal projection of tpoint on the plane through ppoint with normal
\* pnormal1 (vectors add coordinate by coordinate, as numpy arrays do)
projection(pnormal1, ppoint, tpoint) ==
    LET pnormal2 == [i \in 1..3 |-> pnormal1[i] * (-1)]
        d1 == euclidean3d(tpoint, [i \in 1..3 |-> pnormal1[i] + ppoint[i]])
        d2 == euclidean3d(tpoint, [i \in 1..3 |-> pnormal2[i] + ppoint[i]])
        pnormal == IF d1 < d2 THEN pnormal1 ELSE pnormal2
        sn == -dot(pnormal, vector(ppoint, tpoint))
        sd == dot(pnormal, pnormal)
    IN [i \in 1..3 |-> tpoint[i] + ((sn * pnormal[i]) \div sd)]

\* cluster_doubles: location is a function from the elements seen to the
\* (0-based) position of their cluster, clusters a sequence of sets
cluster_in(loc, x) == x \in DOMAIN loc

\* location[x] = i
cluster_put(loc, x, i) == [y \in DOMAIN loc \cup {x} |-> IF y = x THEN i ELSE loc[y]]

\* clusters[i].add(x)
cluster_add(cl, i, x) == [cl EXCEPT ![i + 1] = @ \cup {x}]

\* clusters[:i] + clusters[i+1:]
cluster_drop(cl, i) == [k \in 1..(Len(cl) - 1) |-> IF k < i + 1 THEN cl[k] ELSE cl[k + 1]]

\* the index of locations kept as it was after a merge
cluster_rebuild_stale(loc, cl) == loc

\* the index of locations rebuilt from the clusters (a later cluster overwrites)
cluster_rebuild(loc, cl) ==
    [c \in UNION Range(cl) |->
        CHOOSE i \in 0..(Len(cl) - 1) :
            /\ c \in cl[i + 1]
            /\ \A j \in (i + 1)..(Len(cl) - 1) : c \notin cl[j + 1]]

\* both elements are in clusters: merge into the cluster of lower position
cluster_merge(loc, cl, a, b) ==
    IF loc[a] # loc[b]
    THEN LET lo == IF loc[a] < loc[b] THEN loc[a] ELSE loc[b]
             hi == IF loc[a] < loc[b] THEN loc[b] ELSE loc[a]
             merged == cluster_drop([cl EXCEPT ![lo + 1] = @ \cup cl[hi + 1]], hi)
         IN [location |-> cluster_rebuild(loc, merged), clusters |-> merged]
    ELSE [location |-> loc, clusters |-> cl]

\* one element at most is in a cluster: the three tests in turn
cluster_extend(loc, cl, a, b) ==
    LET loc1 == IF cluster_in(loc, a) THEN cluster_put(loc, b, loc[a]) ELSE loc
        cl1 == IF cluster_in(loc, a) THEN cluster_add(cl, loc[a], b) ELSE cl
        loc2 == IF cluster_in(loc1, b) THEN cluster_put(loc1, a, loc1[b]) ELSE loc1
        cl2 == IF cluster_in(loc1, b) THEN cluster_add(cl1, loc1[b], a) ELSE cl1
        fresh == ~(cluster_in(loc2, b) /\ cluster_in(loc2, a))
        cl3 == IF fresh THEN Append(cl2, {a, b}) ELSE cl2
        loc3 == IF fresh
                THEN cluster_put(cluster_put(loc2, a, Len(cl3) - 1), b, Len(cl3) - 1)
                ELSE loc2
    IN [location |-> loc3, clusters |-> cl3]

\* the body of the loop for the double t
cluster_step(loc, cl, t) ==
    LET a == t[1]
        b == t[2]
    IN IF cluster_in(loc, a) /\ cluster_in(loc, b)
       THEN cluster_merge(loc, cl, a, b)
       ELSE cluster_extend(loc, cl, a, b)

\* tuple(cluster): the elements of the set, here in ascending order
RECURSIVE tuple(_)
tuple(S) ==
    IF S = {} THEN <<>>
    ELSE LET m == CHOOSE x \in S : \A y \in S : x <= y
         IN <<m>> \o tuple(S \ {m})

\* residue annotation of an atom that has a residue
whichrestype(atom) == atom.restype

whichresnumber(atom) == atom.resnr

whichchain(atom) == atom.reschain

(***************************************************************************)
(* detection.py: hydrophobic_interactions                                  *)
(***************************************************************************)
\* the comparison with the bound itself let through
hydroph_within_inclusive(e) == e <= config.HYDROPH_DIST_MAX

hydroph_within(e) == e < config.HYDROPH_DIST_MAX

hydrophobic_interactions(atom_set_a, atom_set_b) ==
    LET prod == product(atom_set_a, atom_set_b)
        RECURSIVE loop(_)
        loop(k) ==
            IF k > Len(prod) THEN <<>>
            ELSE LET a == prod[k][1]
                     b == prod[k][2]
                     e == euclidean3d(a.atom.coords, b.atom.coords)
                 IN (IF hydroph_within(e)
                     THEN << [bsatom |-> a.atom, bsatom_orig_idx |-> a.orig_idx,
                              ligatom |-> b.atom, ligatom_orig_idx |-> b.orig_idx,
                              distance |-> e, restype |-> whichrestype(a.atom),
                              resnr |-> whichresnumber(a.atom),
                              reschain |-> whichchain(a.atom)] >>
                     ELSE <<>>) \o loop(k + 1)
    IN loop(1)

(***************************************************************************)
(* detection.py: hbonds                                                    *)
(***************************************************************************)
hbond_dist_ok(dist_ad) == dist_ad < config.HBOND_DIST_MAX

\* the angle test with the minimum itself let through
hbond_angle_ok_inclusive(v) == v >= config.HBOND_DON_ANGLE_MIN

hbond_angle_ok(v) == v > config.HBOND_DON_ANGLE_MIN

hbonds(acceptors, donor_pairs, protisdon, typ) ==
    LET prod == product(acceptors, donor_pairs)
        RECURSIVE loop(_)
        loop(k) ==
            IF k > Len(prod) THEN <<>>
            ELSE LET acc == prod[k][1]
                     don == prod[k][2]
                     dist_ah == euclidean3d(acc.a.coords, don.h.coords)
                     dist_ad == euclidean3d(acc.a.coords, don.d.coords)
                     v == vecangle(vector(don.h.coords, don.d.coords),
                                   vector(don.h.coords, acc.a.coords))
                     protatom == IF protisdon THEN don.d ELSE acc.a
                 IN (IF typ = "strong" /\ hbond_dist_ok(dist_ad) /\ hbond_angle_ok(v)
                     THEN << [a |-> acc.a, a_orig_idx |-> acc.a_orig_idx,
                              d |-> don.d, d_orig_idx |-> don.d_orig_idx, h |-> don.h,
                              distance_ah |-> dist_ah, distance_ad |-> dist_ad,
                              angle |-> v, type |-> typ, protisdon |-> protisdon,
                              resnr |-> whichresnumber(protatom),
                              restype |-> whichrestype(protatom),
                              reschain |-> whichchain(protatom),
                              sidechain |-> protatom.sidechain,
                              atype |-> acc.a.type, dtype |-> don.d.type] >>
                     ELSE <<>>) \o loop(k + 1)
    IN loop(1)

(***************************************************************************)
(* detection.py: saltbridge                                                *)
(***************************************************************************)
saltbridge_within(e) == e < config.SALTBRIDGE_DIST_MAX

\* the residue taken from the other side
saltbridge_residue_swapped(pc_, nc, protispos) == IF protispos THEN nc ELSE pc_

saltbridge_residue(pc_, nc, protispos) == IF protispos THEN pc_ ELSE nc

saltbridge(poscenter, negcenter, protispos) ==
    LET prod == product(poscenter, negcenter)
        RECURSIVE loop(_)
        loop(k) ==
            IF k > Len(prod) THEN <<>>
            ELSE LET pc_ == prod[k][1]
                     nc == prod[k][2]
                     side == saltbridge_residue(pc_, nc, protispos)
                 IN (IF saltbridge_within(euclidean3d(pc_.center, nc.center))
                     THEN << [positive |-> pc_, negative |-> nc,
                              distance |-> euclidean3d(pc_.center, nc.center),
                              protispos |-> protispos, resnr |-> side.resnr,
                              restype |-> side.restype, reschain |-> side.reschain] >>
                     ELSE <<>>) \o loop(k + 1)
    IN loop(1)

(***************************************************************************)
(* detection.py: halogen                                                   *)
(***************************************************************************)
halogen_acc_ok(acc_angle) ==
    /\ config.HALOGEN_ACC_ANGLE - config.HALOGEN_ANGLE_DEV < acc_angle
    /\ acc_angle < config.HALOGEN_ACC_ANGLE + config.HALOGEN_ANGLE_DEV

halogen_don_ok(don_angle) ==
    /\ config.HALOGEN_DON_ANGLE - config.HALOGEN_ANGLE_DEV < don_angle
    /\ don_angle < config.HALOGEN_DON_ANGLE + config.HALOGEN_ANGLE_DEV

\* one passing angle check is enough
halogen_angles_ok_either(acc_angle, don_angle) ==
    halogen_acc_ok(acc_angle) \/ halogen_don_ok(don_angle)

halogen_angles_ok(acc_angle, don_angle) ==
    halogen_acc_ok(acc_angle) /\ halogen_don_ok(don_angle)

halogen(acceptor, donor) ==
    LET prod == product(acceptor, donor)
        RECURSIVE loop(_)
        loop(k) ==
            IF k > Len(prod) THEN <<>>
            ELSE LET acc == prod[k][1]
                     don == prod[k][2]
                     dist == euclidean3d(acc.o.coords, don.x.coords)
                     vec1 == vector(acc.o.coords, acc.y.coords)
                     vec2 == vector(acc.o.coords, don.x.coords)
                     vec3 == vector(don.x.coords, acc.o.coords)
                     vec4 == vector(don.x.coords, don.c.coords)
                     acc_angle == vecangle(vec1, vec2)
                     don_angle == vecangle(vec3, vec4)
                 IN (IF dist < config.HALOGEN_DIST_MAX
                        /\ halogen_angles_ok(acc_angle, don_angle)
                     THEN << [acc |-> acc, acc_orig_idx |-> acc.o_orig_idx,
                              don |-> don, don_orig_idx |-> don.x_orig_idx,
                              distance |-> dist, don_angle |-> don_angle,
                              acc_angle |-> acc_angle, restype |-> whichrestype(acc.o),
                              resnr |-> whichresnumber(acc.o),
                              reschain |-> whichchain(acc.o), donortype |-> don.x.type,
                              acctype |-> acc.o.type, sidechain |-> acc.o.sidechain] >>
                     ELSE <<>>) \o loop(k + 1)
    IN loop(1)

(***************************************************************************)
(* detection.py: pistacking                                                *)
(***************************************************************************)
\* 180 and 90 degrees, in half degrees
Deg180 == 360
Deg90 == 180

\* the angle between the normals left unfolded
pistack_fold_none(b) == b

\* the smallest of the two angles between the ring planes
pistack_fold(b) == Min(b, IF ~(Deg180 - b < 0) THEN Deg180 - b ELSE b)

pistack_offset(r, l) ==
    LET proj1 == projection(l.normal, l.center, r.center)
        proj2 == projection(r.normal, r.center, l.center)
    IN Min(euclidean3d(proj1, l.center), euclidean3d(proj2, r.center))

pistack_parallel(a, offset) ==
    0 < a /\ a < config.PISTACK_ANG_DEV /\ offset < config.PISTACK_OFFSET_MAX

pistack_tshaped(a, offset) ==
    /\ Deg90 - config.PISTACK_ANG_DEV < a
    /\ a < Deg90 + config.PISTACK_ANG_DEV
    /\ offset < config.PISTACK_OFFSET_MAX

pistacking(rings_bs, rings_lig) ==
    LET prod == product(rings_bs, rings_lig)
        RECURSIVE loop(_)
        loop(k) ==
            IF k > Len(prod) THEN <<>>
            ELSE LET r == prod[k][1]
                     l == prod[k][2]
                     d == euclidean3d(r.center, l.center)
                     b == vecangle(r.normal, l.normal)
                     a == pistack_fold(b)
                     offset == pistack_offset(r, l)
                     contact(t) ==
                         [proteinring |-> r, ligandring |-> l, distance |-> d,
                          angle |-> a, offset |-> offset, type |-> t,
                          resnr |-> whichresnumber(r.atoms[1]),
                          restype |-> whichrestype(r.atoms[1]),
                          reschain |-> whichchain(r.atoms[1])]
                 IN (IF d < config.PISTACK_DIST_MAX /\ pistack_parallel(a, offset)
                     THEN <<contact("P")>> ELSE <<>>)
                    \o (IF d < config.PISTACK_DIST_MAX /\ pistack_tshaped(a, offset)
                        THEN <<contact("T")>> ELSE <<>>)
                    \o loop(k + 1)
    IN loop(1)

(***************************************************************************)
(* detection.py: pication                                                  *)
(***************************************************************************)
\* np.cross
cross(u, v) ==
    <<u[2] * v[3] - u[3] * v[2], u[3] * v[1] - u[1] * v[3], u[1] * v[2] - u[2] * v[1]>>

\* 30 degrees, in half degrees
AmineAngleMax == 60

\* the distance and offset checks of one ring and one charge center
pication_near(ring, p) ==
    /\ euclidean3d(ring.center, p.center) < config.PICATION_DIST_MAX
    /\ euclidean3d(projection(ring.normal, ring.center, p.center), ring.center)
           < config.PISTACK_OFFSET_MAX

pication_tertamine(p) == p.type_name = "lcharge" /\ p.fgroup = "tertamine"

\* the folded angle between the ring normal and the normal of the amine
pication_amine_angle(ring, p) ==
    LET n_atoms_coords == p.n_atoms_coords
        amine_normal == cross(vector(n_atoms_coords[1], n_atoms_coords[2]),
                              vector(n_atoms_coords[3], n_atoms_coords[1]))
        b == vecangle(ring.normal, amine_normal)
    IN Min(b, IF ~(Deg180 - b < 0) THEN Deg180 - b ELSE b)

\* the loop over pos_charged is never left early
pication_break_never(ring, p) == FALSE

\* the loop over pos_charged is left at a tertiary amine that passed the checks
pication_break(ring, p) == pication_near(ring, p) /\ pication_tertamine(p)

\* the charge centers one ring is tested against: pos_charged up to the break
RECURSIVE pication_tested(_, _, _)
pication_tested(ring, pos_charged, j) ==
    IF j > Len(pos_charged) THEN <<>>
    ELSE <<pos_charged[j]>>
         \o (IF pication_break(ring, pos_charged[j]) THEN <<>>
             ELSE pication_tested(ring, pos_charged, j + 1))

\* the records of one ring
pication_ring(ring, pos_charged, protcharged) ==
    LET tested == pication_tested(ring, pos_charged, 1)
        RECURSIVE loop(_)
        loop(j) ==
            IF j > Len(tested) THEN <<>>
            ELSE LET p == tested[j]
                     d == euclidean3d(ring.center, p.center)
                     proj == projection(ring.normal, ring.center, p.center)
                     offset == euclidean3d(proj, ring.center)
                     side == IF pication_tertamine(p) \/ ~protcharged
                             THEN ring.atoms[1] ELSE p.atoms[1]
                 IN (IF /\ pication_near(ring, p)
                        /\ (pication_tertamine(p)
                                => ~(pication_amine_angle(ring, p) > AmineAngleMax))
                     THEN << [ring |-> ring, charge |-> p, distance |-> d,
                              offset |-> offset, type |-> "regular",
                              restype |-> whichrestype(side),
                              resnr |-> whichresnumber(side),
                              reschain |-> whichchain(side),
                              protcharged |-> protcharged] >>
                     ELSE <<>>) \o loop(j + 1)
    IN loop(1)

pication(rings, pos_charged, protcharged) ==
    LET RECURSIVE loop(_)
        loop(i) ==
            IF i > Len(rings) THEN <<>>
            ELSE pication_ring(rings[i], pos_charged, protcharged) \o loop(i + 1)
    IN IF ~(Len(rings) = 0) /\ ~(Len(pos_charged) = 0) THEN loop(1) ELSE <<>>

(***************************************************************************)
(* detection.py: water_bridges                                             *)
(***************************************************************************)
water_dist_ok(dist) ==
    config.WATER_BRIDGE_MINDIST <= dist /\ dist <= config.WATER_BRIDGE_MAXDIST

\* the acceptor-water pairs of one side: water is the outer loop
water_acc_pairs(hba, water) ==
    LET prod == product(water, hba)
        RECURSIVE loop(_)
        loop(k) ==
            IF k > Len(prod) THEN <<>>
            ELSE LET w == prod[k][1]
                     acc == prod[k][2]
                     dist == euclidean3d(acc.a.coords, w.oxy.coords)
                 IN (IF water_dist_ok(dist)
                     THEN << [acc |-> acc, w |-> w, dist |-> dist] >>
                     ELSE <<>>) \o loop(k + 1)
    IN loop(1)

\* the donor-water pairs of one side: water is the outer loop
water_don_pairs(hbd, water) ==
    LET prod == product(water, hbd)
        RECURSIVE loop(_)
        loop(k) ==
            IF k > Len(prod) THEN <<>>
            ELSE LET w == prod[k][1]
                     don == prod[k][2]
                     dist == euclidean3d(don.d.coords, w.oxy.coords)
                     d_angle == vecangle(vector(don.h.coords, don.d.coords),
                                         vector(don.h.coords, w.oxy.coords))
                 IN (IF water_dist_ok(dist) /\ d_angle > config.WATER_BRIDGE_THETA_MIN
                     THEN << [don |-> don, w |-> w, dist |-> dist, d_angle |-> d_angle] >>
                     ELSE <<>>) \o loop(k + 1)
    IN loop(1)

\* the water oxygens of the two halves not compared
water_same_any(wl, wd) == TRUE

water_same(wl, wd) == wl.oxy = wd.oxy

\* one of the two combining loops: acceptor side aw against donor side dw
water_combine(aw, dw, protisdon) ==
    LET prod == product(aw, dw)
        RECURSIVE loop(_)
        loop(k) ==
            IF k > Len(prod) THEN <<>>
            ELSE LET acc == prod[k][1].acc
                     wl == prod[k][1].w
                     don == prod[k][2].don
                     wd == prod[k][2].w
                     w_angle == vecangle(vector(acc.a.coords, wl.oxy.coords),
                                         vector(wl.oxy.coords, don.h.coords))
                     protatom == IF protisdon THEN don.d ELSE acc.a
                 IN (IF /\ water_same(wl, wd)
                        /\ config.WATER_BRIDGE_OMEGA_MIN < w_angle
                        /\ w_angle < config.WATER_BRIDGE_OMEGA_MAX
                     THEN << [a |-> acc.a, a_orig_idx |-> acc.a_orig_idx,
                              atype |-> acc.a.type, d |-> don.d,
                              d_orig_idx |-> don.d_orig_idx, dtype |-> don.d.type,
                              h |-> don.h, water |-> wl.oxy,
                              water_orig_idx |-> wl.oxy_orig_idx,
                              distance_aw |-> prod[k][1].dist,
                              distance_dw |-> prod[k][2].dist,
                              d_angle |-> prod[k][2].d_angle, w_angle |-> w_angle,
                              type |-> "first_deg", resnr |-> whichresnumber(protatom),
                              restype |-> whichrestype(protatom),
                              reschain |-> whichchain(protatom),
                              protisdon |-> protisdon] >>
                     ELSE <<>>) \o loop(k + 1)
    IN loop(1)

water_bridges(bs_hba, lig_hba, bs_hbd, lig_hbd, water) ==
    LET lig_aw == water_acc_pairs(lig_hba, water)
        prot_aw == water_acc_pairs(bs_hba, water)
        lig_dw == water_don_pairs(lig_hbd, water)
        prot_hw == water_don_pairs(bs_hbd, water)
    IN water_combine(lig_aw, prot_hw, TRUE) \o water_combine(prot_aw, lig_dw, FALSE)

(***************************************************************************)
(* detection.py: metal_complexation                                        *)
(***************************************************************************)
\* pairings_dict after the grouping loop: one entry per metal with a target
\* closer than METAL_DIST_MAX, in the order the metals were first entered
RECURSIVE metal_group_from(_, _, _)
metal_group_from(prod, k, dict) ==
    IF k > Len(prod) THEN dict
    ELSE LET metal == prod[k][1]
             target == prod[k][2]
             distance == euclidean3d(metal.m.coords, target.atom.coords)
             pair == [target |-> target, distance |-> distance]
             at == {j \in 1..Len(dict) : dict[j].metal = metal.m}
         IN IF distance < config.METAL_DIST_MAX
            THEN IF at = {}
                 THEN metal_group_from(prod, k + 1,
                          Append(dict, [metal |-> metal.m,
                                        metal_to_id |-> metal.m_orig_idx,
                                        contact_pairs |-> <<pair>>]))
                 ELSE metal_group_from(prod, k + 1,
                          [j \in 1..Len(dict) |->
                              IF j \in at
                              THEN [dict[j] EXCEPT !.contact_pairs = Append(@, pair)]
                              ELSE dict[j]])
            ELSE metal_group_from(prod, k + 1, dict)

metal_group(metals, metal_binding_lig, metal_binding_bs) ==
    metal_group_from(product(metals, metal_binding_lig \o metal_binding_bs), 1, <<>>)

\* vectors_dict: target atom idx -> the metal-to-target vectors of its contacts
RECURSIVE metal_vectors_from(_, _, _, _)
metal_vectors_from(metal, contact_pairs, k, dict) ==
    IF k > Len(contact_pairs) THEN dict
    ELSE LET target == contact_pairs[k].target
             v == vector(metal.coords, target.atom.coords)
             at == {j \in 1..Len(dict) : dict[j].idx = target.atom.idx}
         IN metal_vectors_from(metal, contact_pairs, k + 1,
                IF at = {}
                THEN Append(dict, [idx |-> target.atom.idx, vecs |-> <<v>>])
                ELSE [j \in 1..Len(dict) |->
                         IF j \in at THEN [dict[j] EXCEPT !.vecs = Append(@, v)]
                         ELSE dict[j]])

RECURSIVE metal_others(_, _, _)
metal_others(vectors_dict, t, j) ==
    IF j > Len(vectors_dict) THEN <<>>
    ELSE (IF j = t THEN <<>> ELSE vectors_dict[j].vecs)
         \o metal_others(vectors_dict, t, j + 1)

\* angles_dict: target atom idx -> its observed angles to the other targets
metal_angles(vectors_dict) ==
    [t \in 1..Len(vectors_dict) |->
        LET prod == product(vectors_dict[t].vecs, metal_others(vectors_dict, t, 1))
        IN [idx |-> vectors_dict[t].idx,
            angles |-> [k \in 1..Len(prod) |-> vecangle(prod[k][1], prod[k][2])]]]

\* coordination numbers and their geometries, highest number first
metal_configs ==
    << [coo |-> 6, geometry |-> "octahedral"],
       [coo |-> 5, geometry |-> "trigonal.bipyramidal"],
       [coo |-> 5, geometry |-> "square.pyramidal"],
       [coo |-> 4, geometry |-> "tetrahedral"],
       [coo |-> 4, geometry |-> "square.planar"],
       [coo |-> 3, geometry |-> "trigonal.planar"],
       [coo |-> 3, geometry |-> "trigonal.pyramidal"],
       [coo |-> 2, geometry |-> "linear"] >>

\* n copies of x
Times(x, n) == [i \in 1..n |-> x]

\* angle signatures of each geometry, in half degrees
ideal_angles(geometry) ==
    CASE geometry = "linear" -> Times(<<360>>, 2)
      [] geometry = "trigonal.planar" -> Times(<<240, 240>>, 3)
      [] geometry = "trigonal.pyramidal" -> Times(<<219, 219>>, 3)
      [] geometry = "tetrahedral" -> Times(<<219, 219, 219, 219>>, 4)
      [] geometry = "square.planar" -> Times(<<180, 180, 180, 180>>, 4)
      [] geometry = "trigonal.bipyramidal" ->
            Times(<<240, 240, 180, 180>>, 3) \o Times(<<180, 180, 180, 360>>, 2)
      [] geometry = "square.pyramidal" ->
            Times(<<180, 180, 180, 360>>, 4) \o <<<<180, 180, 180, 180>>>>
      [] geometry = "octahedral" -> Times(<<180, 180, 180, 180, 360>>, 6)

\* the sentinel 999: as an angle difference (half degrees), as a score (0.05 deg)
NoMatchDiff == 1998
NoTargetScore == 19980

\* index of the unused observed angle nearest to ideal_angle (0: none is left)
RECURSIVE metal_best_match(_, _, _, _, _, _)
metal_best_match(ideal_angle, observed_angles, used, j, best_match, best_match_diff) ==
    IF j > Len(observed_angles) THEN [j |-> best_match, diff |-> best_match_diff]
    ELSE LET diff == Abs(ideal_angle - observed_angles[j])
         IN IF j \notin used /\ diff < best_match_diff
            THEN metal_best_match(ideal_angle, observed_angles, used, j + 1, j, diff)
            ELSE metal_best_match(ideal_angle, observed_angles, used, j + 1,
                                  best_match, best_match_diff)

\* single_target_scores of one target against one subsignature
RECURSIVE metal_target_scores(_, _, _, _)
metal_target_scores(subsignature, observed_angles, i, used) ==
    IF i > Len(subsignature) THEN <<>>
    ELSE LET m == metal_best_match(subsignature[i], observed_angles, used, 1, 0,
                                   NoMatchDiff)
         IN IF m.j # 0
            THEN <<m.diff>> \o metal_target_scores(subsignature, observed_angles, i + 1,
                                                   used \cup {m.j})
            ELSE metal_target_scores(subsignature, observed_angles, i + 1, used)

RECURSIVE SumSq(_)
SumSq(s) == IF s = <<>> THEN 0 ELSE Head(s) * Head(s) + SumSq(Tail(s))

RECURSIVE Sum(_)
Sum(s) == IF s = <<>> THEN 0 ELSE Head(s) + Sum(Tail(s))

\* root of the summed squares: half degrees in, 0.05 degree out
metal_target_total(subsignature, observed_angles) ==
    ISqrt(100 * SumSq(metal_target_scores(subsignature, observed_angles, 1, {})))

\* the best target for one subsignature among all targets, used or not
metal_best_target_reuse(subsignature, angles_dict, used_up_targets, k, best_target, best_target_score) ==
    LET total(j) == metal_target_total(subsignature, angles_dict[j].angles)
        best == {j \in k..Len(angles_dict) :
                    /\ total(j) < best_target_score
                    /\ \A i \in k..Len(angles_dict) : total(j) <= total(i)}
    IN IF best = {} THEN [target |-> best_target, score |-> best_target_score]
       ELSE LET j == CHOOSE j \in best : \A i \in best : j <= i
            IN [target |-> angles_dict[j].idx, score |-> total(j)]

\* the best unused target for one subsignature (0 stands for None)
RECURSIVE metal_best_target(_, _, _, _, _, _)
metal_best_target(subsignature, angles_dict, used_up_targets, k, best_target, best_target_score) ==
    IF k > Len(angles_dict)
    THEN [target |-> best_target, score |-> best_target_score]
    ELSE LET target_total ==
                 metal_target_total(subsignature, angles_dict[k].angles)
         IN IF angles_dict[k].idx \notin Range(used_up_targets)
               /\ target_total < best_target_score
            THEN metal_best_target(subsignature, angles_dict, used_up_targets, k + 1,
                                   angles_dict[k].idx, target_total)
            ELSE metal_best_target(subsignature, angles_dict, used_up_targets, k + 1,
                                   best_target, best_target_score)

\* used_up_targets and geometry_scores after the subsignatures from s on
RECURSIVE metal_assign(_, _, _, _, _)
metal_assign(signature, angles_dict, s, used_up_targets, geometry_scores) ==
    IF s > Len(signature)
    THEN [used_up_targets |-> used_up_targets, geometry_scores |-> geometry_scores]
    ELSE LET b == metal_best_target(signature[s], angles_dict, used_up_targets, 1, 0,
                                    NoTargetScore)
         IN metal_assign(signature, angles_dict, s + 1,
                         Append(used_up_targets, b.target),
                         Append(geometry_scores, b.score))

\* every signature count (2..6) divides MeanDen: a mean is kept times MeanDen
MeanDen == 60

metal_mean(geometry_scores) == Sum(geometry_scores) * (MeanDen \div Len(geometry_scores))

\* the gdata of one (geometry, coordination) candidate
metal_gdata(c, angles_dict, num_targets) ==
    LET fit == metal_assign(ideal_angles(c.geometry), angles_dict, 1, <<>>, <<>>)
    IN [geometry |-> c.geometry, rms |-> metal_mean(fit.geometry_scores),
        coordination |-> c.coo,
        excluded |-> SelectSeq([k \in 1..Len(angles_dict) |-> angles_dict[k].idx],
                               LAMBDA t : t \notin Range(fit.used_up_targets)),
        diff_targets |-> num_targets - c.coo]

metal_all_total(angles_dict, num_targets) ==
    [g \in 1..Len(metal_configs) |-> metal_gdata(metal_configs[g], angles_dict, num_targets)]

\* sorted(all_total, key=abs(diff_targets)): stable, ascending
RECURSIVE metal_sorted_from(_, _, _)
metal_sorted_from(all_total, key, maxkey) ==
    IF key > maxkey THEN <<>>
    ELSE SelectSeq(all_total, LAMBDA x : Abs(x.diff_targets) = key)
         \o metal_sorted_from(all_total, key + 1, maxkey)

\* all_total left in the order of evaluation
metal_sorted_not(all_total, num_targets) == all_total

metal_sorted(all_total, num_targets) == metal_sorted_from(all_total, 0, num_targets + 6)

\* the margin 0.5 and the cutoff 3.5 of the decision, times MeanDen in 0.05 degree
DiffToNextMin == 600
NextRmsMax == 4200

\* the margin taken the other way round: this one is worse than the next
metal_take_this_reversed(this_rms, next_rms) == this_rms - next_rms > DiffToNextMin

\* this candidate is taken: the next one is worse by more than the margin
metal_take_this(this_rms, next_rms) == next_rms - this_rms > DiffToNextMin

\* otherwise the next candidate is taken when it fits well
metal_take_next(next_rms) == next_rms < NextRmsMax

\* the decision loop from position i (1-based) on; all_total[i + 1] is read first,
\* and past the end of the list that read raises IndexError
RECURSIVE metal_walk(_, _)
metal_walk(all_total, i) ==
    IF i + 1 > Len(all_total)
    THEN [error |-> TRUE, final_geom |-> "NA", final_coo |-> "NA", rms |-> 0,
          excluded |-> <<>>]
    ELSE LET total == all_total[i]
             next_total == all_total[i + 1]
         IN IF metal_take_this(total.rms, next_total.rms)
            THEN [error |-> FALSE, final_geom |-> total.geometry,
                  final_coo |-> total.coordination, rms |-> total.rms,
                  excluded |-> total.excluded]
            ELSE IF metal_take_next(next_total.rms)
            THEN [error |-> FALSE, final_geom |-> next_total.geometry,
                  final_coo |-> next_total.coordination, rms |-> next_total.rms,
                  excluded |-> next_total.excluded]
            ELSE IF i = Len(all_total)
            THEN [error |-> FALSE, final_geom |-> "NA", final_coo |-> "NA", rms |-> 0,
                  excluded |-> <<>>]
            ELSE metal_walk(all_total, i + 1)

\* all_total of one metal, sorted by coordination number, largest first
metal_ranked(metal, contact_pairs) ==
    LET num_targets == Len(contact_pairs)
        angles_dict == metal_angles(metal_vectors_from(metal, contact_pairs, 1, <<>>))
    IN metal_sorted(metal_all_total(angles_dict, num_targets), num_targets)

\* the single target given coordination 0
metal_final_coo0(metal, contact_pairs) ==
    IF Len(contact_pairs) = 1
    THEN [error |-> FALSE, final_geom |-> "NA", final_coo |-> 0, rms |-> 0,
          excluded |-> <<>>]
    ELSE metal_walk(metal_ranked(metal, contact_pairs), 1)

\* final_geom, final_coo, rms and excluded of one metal
metal_final(metal, contact_pairs) ==
    LET num_targets == Len(contact_pairs)
    IN IF num_targets = 1
       THEN [error |-> FALSE, final_geom |-> "NA", final_coo |-> 1, rms |-> 0,
             excluded |-> <<>>]
       ELSE metal_walk(metal_ranked(metal, contact_pairs), 1)

metal_only_water(contact_pairs) ==
    {contact_pairs[k].target.location : k \in 1..Len(contact_pairs)} = {"water"}

\* the records one metal adds to pairings (cn is cnum, counted from 0)
metal_records(entry, cn, final) ==
    LET contact_pairs == entry.contact_pairs
        RECURSIVE loop(_)
        loop(k) ==
            IF k > Len(contact_pairs) THEN <<>>
            ELSE LET target == contact_pairs[k].target
                 IN (IF target.atom.idx \notin Range(final.excluded)
                     THEN << [metal |-> entry.metal, metal_orig_idx |-> entry.metal_to_id,
                              metal_type |-> entry.metal.type, target |-> target,
                              target_orig_idx |-> target.atom_orig_idx,
                              target_type |-> target.type,
                              coordination_num |-> final.final_coo,
                              distance |-> contact_pairs[k].distance,
                              resnr |-> target.resnr, restype |-> target.restype,
                              reschain |-> target.reschain,
                              location |-> target.location, rms |-> final.rms,
                              geometry |-> final.final_geom,
                              num_partners |-> Len(contact_pairs),
                              complexnum |-> cn + 1] >>
                     ELSE <<>>) \o loop(k + 1)
    IN IF ~metal_only_water(contact_pairs) THEN loop(1) ELSE <<>>

\* the whole function: whether IndexError was raised, and the pairings returned
RECURSIVE metal_loop(_, _, _)
metal_loop(dict, cn, acc) ==
    IF cn >= Len(dict) THEN [raised |-> FALSE, pairings |-> acc]
    ELSE LET entry == dict[cn + 1]
             final == metal_final(entry.metal, entry.contact_pairs)
         IN IF final.error THEN [raised |-> TRUE, pairings |-> <<>>]
            ELSE metal_loop(dict, cn + 1, acc \o metal_records(entry, cn, final))

metal_complexation(metals, metal_binding_lig, metal_binding_bs) ==
    metal_loop(metal_group(metals, metal_binding_lig, metal_binding_bs), 0, <<>>)

(***************************************************************************)
(* The inputs of the model: thresholds and features                        *)
(***************************************************************************)
\* the thresholds of the config module: distances in 0.01 A, angles in half degrees
ConfigDefault ==
    [HYDROPH_DIST_MAX |-> 400, HBOND_DIST_MAX |-> 410, HBOND_DON_ANGLE_MIN |-> 200,
     PISTACK_DIST_MAX |-> 750, PISTACK_ANG_DEV |-> 60, PISTACK_OFFSET_MAX |-> 200,
     PICATION_DIST_MAX |-> 600, SALTBRIDGE_DIST_MAX |-> 550,
     HALOGEN_DIST_MAX |-> 400, HALOGEN_ACC_ANGLE |-> 240, HALOGEN_DON_ANGLE |-> 330,
     HALOGEN_ANGLE_DEV |-> 60, WATER_BRIDGE_MINDIST |-> 250,
     WATER_BRIDGE_MAXDIST |-> 400, WATER_BRIDGE_OMEGA_MIN |-> 150,
     WATER_BRIDGE_OMEGA_MAX |-> 280, WATER_BRIDGE_THETA_MIN |-> 200,
     METAL_DIST_MAX |-> 300]

\* a second set of thresholds: the detectors are checked for both
ConfigAlt ==
    [HYDROPH_DIST_MAX |-> 374, HBOND_DIST_MAX |-> 350, HBOND_DON_ANGLE_MIN |-> 180,
     PISTACK_DIST_MAX |-> 550, PISTACK_ANG_DEV |-> 90, PISTACK_OFFSET_MAX |-> 100,
     PICATION_DIST_MAX |-> 500, SALTBRIDGE_DIST_MAX |-> 424,
     HALOGEN_DIST_MAX |-> 350, HALOGEN_ACC_ANGLE |-> 240, HALOGEN_DON_ANGLE |-> 330,
     HALOGEN_ANGLE_DEV |-> 100, WATER_BRIDGE_MINDIST |-> 282,
     WATER_BRIDGE_MAXDIST |-> 353, WATER_BRIDGE_OMEGA_MIN |-> 180,
     WATER_BRIDGE_OMEGA_MAX |-> 270, WATER_BRIDGE_THETA_MIN |-> 320,
     METAL_DIST_MAX |-> 250]

Configs == {ConfigDefault, ConfigAlt}

\* an atom with its residue
Atom(idx, coords, type, restype, resnr) ==
    [idx |-> idx, coords |-> coords, type |-> type, restype |-> restype,
     resnr |-> resnr, reschain |-> "A", sidechain |-> resnr % 2 = 0]

\* hydrophobic atoms
HydrophBs ==
    { [atom |-> Atom(1, <<0, 0, 0>>, "C3", "ALA", 10), orig_idx |-> 101],
      [atom |-> Atom(2, <<0, 0, 30>>, "C3", "LEU", 11), orig_idx |-> 102] }

HydrophLig ==
    { [atom |-> Atom(3, <<40, 0, 0>>, "C3", "LIG", 1), orig_idx |-> 103],
      [atom |-> Atom(4, <<20, 30, 10>>, "Car", "LIG", 1), orig_idx |-> 104],
      [atom |-> Atom(5, <<0, 0, 10>>, "C3", "LIG", 1), orig_idx |-> 105] }

\* hydrogen bond acceptors and donor pairs
HbondAcc ==
    { [a |-> Atom(1, <<0, 0, 0>>, "O2", "ASP", 20), a_orig_idx |-> 101],
      [a |-> Atom(2, <<0, 0, -20>>, "O3", "SER", 21), a_orig_idx |-> 102] }

HbondDon ==
    { [d |-> Atom(3, <<30, 0, 0>>, "N3", "LIG", 1), d_orig_idx |-> 103,
       h |-> Atom(4, <<20, 0, 0>>, "H", "LIG", 1)],
      [d |-> Atom(5, <<30, 0, 0>>, "Nam", "LIG", 1), d_orig_idx |-> 105,
       h |-> Atom(6, <<30, 10, 0>>, "H", "LIG", 1)],
      [d |-> Atom(7, <<20, 10, 0>>, "O3", "LIG", 1), d_orig_idx |-> 107,
       h |-> Atom(8, <<20, 0, 0>>, "H", "LIG", 1)],
      [d |-> Atom(9, <<40, 9, 0>>, "N3", "LIG", 1), d_orig_idx |-> 109,
       h |-> Atom(10, <<30, 9, 0>>, "H", "LIG", 1)] }

\* aromatic rings
Ring(idx, center, normal, restype, resnr) ==
    [center |-> center, normal |-> normal,
     atoms |-> <<Atom(idx, center, "Car", restype, resnr)>>]

RingsBs ==
    { Ring(1, <<0, 0, 0>>, <<0, 0, 10>>, "PHE", 30),
      Ring(2, <<0, 20, 0>>, <<0, 10, 10>>, "TYR", 31),
      Ring(3, <<0, 0, -40>>, <<10, 0, 0>>, "TRP", 32) }

RingsLig ==
    { Ring(4, <<0, 0, 40>>, <<0, 0, 10>>, "LIG", 1),
      Ring(5, <<10, 0, 40>>, <<0, -3, -10>>, "LIG", 1),
      Ring(6, <<0, 10, 40>>, <<0, 3, 10>>, "LIG", 1),
      Ring(7, <<0, 10, 30>>, <<0, -10, 3>>, "LIG", 1) }

\* rings and positively charged groups for pication
PiCatRings ==
    { Ring(21, <<0, 0, 0>>, <<0, 0, 10>>, "PHE", 30),
      Ring(22, <<0, 0, 80>>, <<0, 0, 10>>, "TYR", 31),
      Ring(23, <<0, 0, 120>>, <<0, 0, 10>>, "TRP", 32) }

PosCharge(idx, center, type_name, fgroup, n_atoms_coords, restype, resnr) ==
    [center |-> center, atoms |-> <<Atom(idx, center, "N3", restype, resnr)>>,
     type_name |-> type_name, fgroup |-> fgroup, n_atoms_coords |-> n_atoms_coords]

\* ligand charges: two tertiary amines (amine plane parallel and perpendicular
\* to the rings), a quaternary amine and a far one
PosChargedLig ==
    { PosCharge(24, <<0, 0, 40>>, "lcharge", "tertamine",
                <<<<0, 0, 40>>, <<10, 0, 40>>, <<0, 10, 40>>>>, "LIG", 1),
      PosCharge(25, <<10, 0, 40>>, "lcharge", "tertamine",
                <<<<10, 0, 40>>, <<10, 10, 40>>, <<10, 0, 50>>>>, "LIG", 1),
      PosCharge(26, <<0, 10, 40>>, "lcharge", "quartamine",
                <<<<0, 10, 40>>, <<10, 10, 40>>, <<0, 20, 40>>>>, "LIG", 1),
      PosCharge(27, <<0, 0, 200>>, "lcharge", "quartamine",
                <<<<0, 0, 200>>, <<10, 0, 200>>, <<0, 10, 200>>>>, "LIG", 1) }

\* protein charges
PosChargedBs ==
    { PosCharge(28, <<0, 0, 40>>, "pcharge", "", <<>>, "LYS", 40),
      PosCharge(29, <<0, 10, 40>>, "pcharge", "", <<>>, "ARG", 41) }

\* charge centers
Charge(center, restype, resnr) ==
    [center |-> center, restype |-> restype, resnr |-> resnr, reschain |-> "A"]

SaltPos == { Charge(<<0, 0, 0>>, "LYS", 40), Charge(<<0, 0, 30>>, "ARG", 41) }

SaltNeg == { Charge(<<30, 0, 0>>, "LIG", 1), Charge(<<55, 0, 0>>, "LIG", 2) }

\* halogen bond acceptors (O with its neighbour Y) and donors (X with its C)
HalogenAcc ==
    { [o |-> Atom(1, <<0, 0, 0>>, "O2", "GLY", 50), o_orig_idx |-> 101,
       y |-> Atom(2, <<0, -10, -10>>, "C2", "GLY", 50)],
      [o |-> Atom(3, <<40, 40, 0>>, "O3", "THR", 52), o_orig_idx |-> 103,
       y |-> Atom(4, <<50, 50, 0>>, "C3", "THR", 52)] }

HalogenDon ==
    { [x |-> Atom(5, <<20, 20, 0>>, "Cl", "LIG", 1), x_orig_idx |-> 105,
       c |-> Atom(6, <<30, 30, 0>>, "Car", "LIG", 1)],
      [x |-> Atom(7, <<-20, -20, 0>>, "Br", "LIG", 1), x_orig_idx |-> 107,
       c |-> Atom(8, <<-30, -30, 0>>, "Car", "LIG", 1)],
      [x |-> Atom(9, <<-20, 20, 0>>, "I", "LIG", 1), x_orig_idx |-> 109,
       c |-> Atom(10, <<-10, 30, 0>>, "Car", "LIG", 1)],
      [x |-> Atom(11, <<20, 0, 20>>, "Cl", "LIG", 1), x_orig_idx |-> 111,
       c |-> Atom(12, <<30, 0, 20>>, "Car", "LIG", 1)] }

\* water bridges: acceptors, donor pairs and water oxygens
WaterBsHba == { [a |-> Atom(1, <<0, 0, -30>>, "O2", "GLU", 60), a_orig_idx |-> 101] }

WaterLigHba ==
    { [a |-> Atom(2, <<0, 0, 30>>, "O3", "LIG", 1), a_orig_idx |-> 102],
      [a |-> Atom(9, <<21, -21, 0>>, "O2", "LIG", 1), a_orig_idx |-> 109] }

WaterBsHbd ==
    { [d |-> Atom(3, <<-20, -20, 0>>, "N3", "LYS", 61), d_orig_idx |-> 103,
       h |-> Atom(4, <<-10, -10, 0>>, "H", "LYS", 61)],
      [d |-> Atom(10, <<-20, -20, 10>>, "O3", "SER", 62), d_orig_idx |-> 110,
       h |-> Atom(11, <<-10, -10, 5>>, "H", "SER", 62)] }

WaterLigHbd ==
    { [d |-> Atom(5, <<20, 20, 0>>, "O3", "LIG", 1), d_orig_idx |-> 105,
       h |-> Atom(6, <<10, 10, 0>>, "H", "LIG", 1)] }

Waters ==
    { [oxy |-> Atom(7, <<0, 0, 0>>, "O3", "HOH", 70), oxy_orig_idx |-> 107],
      [oxy |-> Atom(8, <<5, 5, 0>>, "O3", "HOH", 71), oxy_orig_idx |-> 108] }

\* coordinate tuples of every length from 2 to MaxDim
RECURSIVE Tuples(_, _)
Tuples(S, n) == IF n = 0 THEN {<<>>} ELSE {Append(t, x) : t \in Tuples(S, n - 1), x \in S}

CoordTuples == UNION {Tuples({0, 30}, n) : n \in 2..MaxDim}

\* metals and their binding targets
Metal(idx, coords, type) ==
    [m |-> Atom(idx, coords, type, type, 80 + idx), m_orig_idx |-> 200 + idx]

Metals == { Metal(1, <<0, 0, 0>>, "Zn"), Metal(2, <<60, 0, 0>>, "Mg") }

Target(idx, coords, type, restype, resnr, loc) ==
    [atom |-> Atom(idx, coords, type, restype, resnr), atom_orig_idx |-> 300 + idx,
     type |-> type, restype |-> restype, resnr |-> resnr, reschain |-> "A",
     location |-> loc]

MetalLig ==
    << Target(11, <<20, 0, 20>>, "O3", "LIG", 1, "ligand"),
       Target(12, <<-20, 10, -10>>, "N3", "LIG", 1, "ligand") >>

MetalBs ==
    << Target(13, <<0, -20, 20>>, "O2", "ASP", 90, "protein.sidechain"),
       Target(14, <<0, -10, 20>>, "O3", "HOH", 91, "water"),
       Target(15, <<0, 0, 10>>, "O2", "GLY", 92, "protein.mainchain"),
       Target(16, <<10, -10, 20>>, "Npl", "HIS", 93, "protein.sidechain"),
       Target(11, <<20, 0, 20>>, "O2", "LIG", 1, "ligand"),
       Target(17, <<60, 0, 20>>, "S3", "CYS", 94, "protein.sidechain"),
       Target(18, <<60, 20, 0>>, "O3", "HOH", 95, "water") >>

\* the doubles cluster_doubles is given
Doubles == { <<1, 2>>, <<3, 4>>, <<5, 6>>, <<2, 3>>, <<6, 1>>, <<2, 2>> }

\* the sequences over S of length n at most
SeqsUpTo(S, n) == UNION {Tuples(S, m) : m \in 0..n}

\* the subsequences of s, in the order of s
RECURSIVE SubSeqs(_)
SubSeqs(s) ==
    IF s = <<>> THEN {<<>>}
    ELSE LET rest == SubSeqs(Tail(s))
         IN rest \cup {<<Head(s)>> \o t : t \in rest}

(***************************************************************************)
(* The calls                                                               *)
(***************************************************************************)
NoCall ==
    /\ pc = "ready"
    /\ ret = <<>>
    /\ pairings_dict = <<>>
    /\ cnum = 0
    /\ pairings = <<>>
    /\ location = <<>>
    /\ clusters = <<>>

InitEuclid ==
    /\ config = ConfigDefault
    /\ call = "euclidean3d"
    /\ args \in [v1 : CoordTuples, v2 : CoordTuples]
    /\ NoCall

InitDetect ==
    /\ config \in Configs
    /\ \/ /\ call = "hydrophobic_interactions"
          /\ args \in [atom_set_a : InjSeqs(HydrophBs, MaxFeat),
                       atom_set_b : InjSeqs(HydrophLig, MaxFeat)]
       \/ /\ call = "hbonds"
          /\ args \in [acceptors : InjSeqs(HbondAcc, MaxFeat),
                       donor_pairs : InjSeqs(HbondDon, MaxFeat),
                       protisdon : BOOLEAN, typ : {"strong", "weak"}]
       \/ /\ call = "pistacking"
          /\ args \in [rings_bs : InjSeqs(RingsBs, MaxFeat),
                       rings_lig : InjSeqs(RingsLig, MaxFeat)]
       \/ /\ call = "pication"
          /\ \/ args \in [rings : InjSeqs(PiCatRings, MaxFeat),
                          pos_charged : InjSeqs(PosChargedLig, MaxFeat),
                          protcharged : {FALSE}]
             \/ args \in [rings : InjSeqs(PiCatRings, MaxFeat),
                          pos_charged : InjSeqs(PosChargedBs, MaxFeat),
                          protcharged : {TRUE}]
       \/ /\ call = "saltbridge"
          /\ args \in [poscenter : InjSeqs(SaltPos, MaxFeat),
                       negcenter : InjSeqs(SaltNeg, MaxFeat), protispos : BOOLEAN]
       \/ /\ call = "halogen"
          /\ args \in [acceptor : InjSeqs(HalogenAcc, MaxFeat),
                       donor : InjSeqs(HalogenDon, MaxFeat)]
       \/ /\ call = "water_bridges"
          /\ args \in [bs_hba : InjSeqs(WaterBsHba, MaxFeat),
                       lig_hba : InjSeqs(WaterLigHba, MaxFeat),
                       bs_hbd : InjSeqs(WaterBsHbd, MaxFeat),
                       lig_hbd : InjSeqs(WaterLigHbd, MaxFeat),
                       water : InjSeqs(Waters, MaxFeat)]
    /\ NoCall

InitMetal ==
    /\ config \in Configs
    /\ call = "metal_complexation"
    /\ args \in {a \in [metals : InjSeqs(Metals, MaxMetals),
                        metal_binding_lig : SubSeqs(MetalLig),
                        metal_binding_bs : SubSeqs(MetalBs)] :
                    Len(a.metal_binding_lig) + Len(a.metal_binding_bs) <= MaxTargets}
    /\ NoCall

InitCluster ==
    /\ config = ConfigDefault
    /\ call = "cluster_doubles"
    /\ args \in [double_list : SeqsUpTo(Doubles, MaxDoubles)]
    /\ NoCall

\* a call of a function that returns in one step
Return(value) ==
    /\ pc = "ready"
    /\ pc' = "done"
    /\ ret' = value
    /\ UNCHANGED <<config, call, args, pairings_dict, cnum, pairings, location, clusters>>

Euclidean3d ==
    /\ call = "euclidean3d"
    /\ Return(euclidean3d(args.v1, args.v2))

Hydrophobic ==
    /\ call = "hydrophobic_interactions"
    /\ Return(hydrophobic_interactions(args.atom_set_a, args.atom_set_b))

HBonds ==
    /\ call = "hbonds"
    /\ Return(hbonds(args.acceptors, args.donor_pairs, args.protisdon, args.typ))

PiStacking ==
    /\ call = "pistacking"
    /\ Return(pistacking(args.rings_bs, args.rings_lig))

PiCation ==
    /\ call = "pication"
    /\ Return(pication(args.rings, args.pos_charged, args.protcharged))

SaltBridge ==
    /\ call = "saltbridge"
    /\ Return(saltbridge(args.poscenter, args.negcenter, args.protispos))

Halogen ==
    /\ call = "halogen"
    /\ Return(halogen(args.acceptor, args.donor))

WaterBridges ==
    /\ call = "water_bridges"
    /\ Return(water_bridges(args.bs_hba, args.lig_hba, args.bs_hbd, args.lig_hbd,
                            args.water))

\* metal_complexation, the grouping loop
MetalGroup ==
    /\ call = "metal_complexation"
    /\ pc = "ready"
    /\ pairings_dict' = metal_group(args.metals, args.metal_binding_lig,
                                    args.metal_binding_bs)
    /\ pc' = "classify"
    /\ UNCHANGED <<config, call, args, ret, cnum, pairings, location, clusters>>

\* metal_complexation, one metal of the second loop
MetalClassify ==
    /\ pc = "classify"
    /\ cnum < Len(pairings_dict)
    /\ LET entry == pairings_dict[cnum + 1]
           final == metal_final(entry.metal, entry.contact_pairs)
       IN IF final.error
          THEN /\ pc' = "error"
               /\ ret' = IndexError
               /\ UNCHANGED <<cnum, pairings>>
          ELSE /\ pairings' = pairings \o metal_records(entry, cnum, final)
               /\ cnum' = cnum + 1
               /\ UNCHANGED <<pc, ret>>
    /\ UNCHANGED <<config, call, args, pairings_dict, location, clusters>>

\* metal_complexation, return pairings
MetalReturn ==
    /\ pc = "classify"
    /\ cnum = Len(pairings_dict)
    /\ pc' = "done"
    /\ ret' = pairings
    /\ UNCHANGED <<config, call, args, pairings_dict, cnum, pairings, location, clusters>>

\* cluster_doubles, one double of the loop; cnum counts the doubles processed
ClusterDouble ==
    /\ call = "cluster_doubles"
    /\ pc = "ready"
    /\ cnum < Len(args.double_list)
    /\ LET next == cluster_step(location, clusters, args.double_list[cnum + 1])
       IN /\ location' = next.location
          /\ clusters' = next.clusters
    /\ cnum' = cnum + 1
    /\ UNCHANGED <<config, call, args, pc, ret, pairings_dict, pairings>>

\* cluster_doubles, return map(tuple, clusters)
ClusterReturn ==
    /\ call = "cluster_doubles"
    /\ pc = "ready"
    /\ cnum = Len(args.double_list)
    /\ pc' = "done"
    /\ ret' = [k \in 1..Len(clusters) |-> tuple(clusters[k])]
    /\ UNCHANGED <<config, call, args, pairings_dict, cnum, pairings, location, clusters>>

NextEuclid == Euclidean3d

NextCluster ==
    \/ ClusterDouble
    \/ ClusterReturn

NextDetect ==
    \/ Hydrophobic
    \/ HBonds
    \/ PiStacking
    \/ PiCation
    \/ SaltBridge
    \/ Halogen
    \/ WaterBridges

NextMetal ==
    \/ MetalGroup
    \/ MetalClassify
    \/ MetalReturn

SpecEuclid == InitEuclid /\ [][NextEuclid]_vars

SpecCluster == InitCluster /\ [][NextCluster]_vars

Spec == InitDetect /\ [][NextDetect]_vars

SpecMetal == InitMetal /\ [][NextMetal]_vars

(***************************************************************************)
(* metal_complexation and euclidean3d: the properties                      *)
(***************************************************************************)
\* the entries of pairings_dict
Entries == {pairings_dict[k] : k \in 1..Len(pairings_dict)}

\* the decision walk over all_total accepts no candidate by either rule
NoneAccepted(all_total) ==
    \A i \in 1..(Len(all_total) - 1) :
        /\ ~metal_take_this(all_total[i].rms, all_total[i + 1].rms)
        /\ ~metal_take_next(all_total[i + 1].rms)

\* C1: metal_complexation never aborts: no call ends in an error, and a metal
\* with two or more qualifying targets whose decision walk accepts no
\* candidate by either rule gets geometry "NA", coordination "NA", RMS 0 and
\* an empty excluded set.
C1_NeverAborts ==
    call = "metal_complexation" =>
        /\ pc # "error"
        /\ \A entry \in Entries :
               (/\ Len(entry.contact_pairs) >= 2
                /\ NoneAccepted(metal_ranked(entry.metal, entry.contact_pairs)))
               => LET final == metal_final(entry.metal, entry.contact_pairs)
                  IN /\ ~final.error
                     /\ final.final_geom = "NA"
                     /\ final.final_coo = "NA"
                     /\ final.rms = 0
                     /\ final.excluded = <<>>

\* C2: euclidean3d called with an argument that is not a 3-coordinate point
\* ends in a fault: it returns neither None nor a computed number.
C2_ExplicitFault ==
    (/\ call = "euclidean3d"
     /\ pc = "done"
     /\ (Len(args.v1) # 3 \/ Len(args.v2) # 3))
    => (ret # None /\ ret \notin Nat)

\* C3: a metal with exactly one qualifying target is assigned coordination 1,
\* geometry "NA", RMS 0 and an empty excluded set, and every record emitted
\* for it carries coordination_num 1, geometry "NA", rms 0 and num_partners 1.
C3_SingleTarget ==
    (call = "metal_complexation" /\ pc \in {"classify", "done"}) =>
        \A entry \in Entries :
            Len(entry.contact_pairs) = 1 =>
                LET final == metal_final(entry.metal, entry.contact_pairs)
                IN /\ ~final.error
                   /\ final.final_coo = 1
                   /\ final.final_geom = "NA"
                   /\ final.rms = 0
                   /\ final.excluded = <<>>
                   /\ \A r \in Range(pairings) :
                          r.metal = entry.metal =>
                              /\ r.coordination_num = 1
                              /\ r.geometry = "NA"
                              /\ r.rms = 0
                              /\ r.num_partners = 1

\* a call has returned a record for a metal that has one qualifying target
C3_Witness ==
    /\ call = "metal_complexation"
    /\ pc = "done"
    /\ \E entry \in Entries :
           /\ Len(entry.contact_pairs) = 1
           /\ \E r \in Range(pairings) : r.metal = entry.metal

\* s with the elements at positions i and j exchanged
Swap(s, i, j) ==
    [k \in 1..Len(s) |-> IF k = i THEN s[j] ELSE IF k = j THEN s[i] ELSE s[k]]

Count(s, Test(_)) == Cardinality({k \in 1..Len(s) : Test(s[k])})

\* C5: hydrophobic_interactions returns exactly one record for each pair of
\* a binding-site atom and a ligand atom closer than HYDROPH_DIST_MAX, none
\* for any other pair, and the distance of a record is the distance of its
\* own bsatom and ligatom.
C5_Hydrophobic ==
    (call = "hydrophobic_interactions" /\ pc = "done") =>
        /\ \A a \in Range(args.atom_set_a) : \A b \in Range(args.atom_set_b) :
               LET Of(r) == r.bsatom = a.atom /\ r.ligatom = b.atom
               IN Count(ret, Of) =
                      IF euclidean3d(a.atom.coords, b.atom.coords)
                             < config.HYDROPH_DIST_MAX
                      THEN 1 ELSE 0
        /\ \A r \in Range(ret) :
               /\ r.distance = euclidean3d(r.bsatom.coords, r.ligatom.coords)
               /\ \E a \in Range(args.atom_set_a) : \E b \in Range(args.atom_set_b) :
                      r.bsatom = a.atom /\ r.ligatom = b.atom

\* a call has returned a record while a pair at exactly HYDROPH_DIST_MAX got none
C5_Witness ==
    /\ call = "hydrophobic_interactions"
    /\ pc = "done"
    /\ ret # <<>>
    /\ \E a \in Range(args.atom_set_a) : \E b \in Range(args.atom_set_b) :
           euclidean3d(a.atom.coords, b.atom.coords) = config.HYDROPH_DIST_MAX

\* the donor angle of an acceptor/donor pair, as hbonds measures it
DonorAngle(acc, don) ==
    vecangle(vector(don.h.coords, don.d.coords), vector(don.h.coords, acc.a.coords))

\* C6: hbonds emits a record for an acceptor/donor pair only if the
\* donor-acceptor distance is below HBOND_DIST_MAX and the donor angle is
\* greater than HBOND_DON_ANGLE_MIN; a pair whose donor angle is exactly
\* HBOND_DON_ANGLE_MIN gets no record.
C6_HBonds ==
    (call = "hbonds" /\ pc = "done") =>
        /\ \A r \in Range(ret) :
               /\ r.distance_ad < config.HBOND_DIST_MAX
               /\ r.angle > config.HBOND_DON_ANGLE_MIN
               /\ \E acc \in Range(args.acceptors) : \E don \in Range(args.donor_pairs) :
                      /\ r.a = acc.a /\ r.d = don.d /\ r.h = don.h
                      /\ r.distance_ad = euclidean3d(acc.a.coords, don.d.coords)
                      /\ r.angle = DonorAngle(acc, don)
        /\ \A acc \in Range(args.acceptors) : \A don \in Range(args.donor_pairs) :
               (\E r \in Range(ret) : r.a = acc.a /\ r.d = don.d /\ r.h = don.h)
               => /\ euclidean3d(acc.a.coords, don.d.coords) < config.HBOND_DIST_MAX
                  /\ DonorAngle(acc, don) > config.HBOND_DON_ANGLE_MIN

\* a call has returned a record while a pair close enough, with a donor angle
\* of exactly HBOND_DON_ANGLE_MIN, got none
C6_Witness ==
    /\ call = "hbonds"
    /\ pc = "done"
    /\ ret # <<>>
    /\ \E acc \in Range(args.acceptors) : \E don \in Range(args.donor_pairs) :
           /\ DonorAngle(acc, don) = config.HBOND_DON_ANGLE_MIN
           /\ euclidean3d(acc.a.coords, don.d.coords) < config.HBOND_DIST_MAX
           /\ ~\E r \in Range(ret) : r.a = acc.a /\ r.d = don.d

\* the measurements of the records of a call, by ring pair: (first argument's
\* ring, second argument's ring, type, distance, angle, offset)
PiStackValues(records) ==
    {<<r.proteinring, r.ligandring, r.type, r.distance, r.angle, r.offset>> :
        r \in Range(records)}

\* C7: the folded angle of every ring pair lies between 0 and 90 degrees for
\* every angle between the normals from 0 to 180 degrees, and pistacking
\* called with its two arguments exchanged gives each ring pair the same
\* distance, folded angle and offset.
C7_PiStacking ==
    (call = "pistacking" /\ pc = "done") =>
        /\ \A b \in 0..Deg180 : pistack_fold(b) \in 0..Deg90
        /\ \A rec \in Range(ret) : rec.angle \in 0..Deg90
        /\ \A r \in Range(args.rings_bs) : \A l \in Range(args.rings_lig) :
               /\ pistack_fold(vecangle(r.normal, l.normal)) \in 0..Deg90
               /\ euclidean3d(r.center, l.center) = euclidean3d(l.center, r.center)
               /\ pistack_fold(vecangle(r.normal, l.normal))
                      = pistack_fold(vecangle(l.normal, r.normal))
               /\ pistack_offset(r, l) = pistack_offset(l, r)
        /\ PiStackValues(ret)
               = {<<v[2], v[1], v[3], v[4], v[5], v[6]>> :
                     v \in PiStackValues(pistacking(args.rings_lig, args.rings_bs))}

\* a call has returned a record for two rings whose normals are more than 90
\* degrees apart
C7_Witness ==
    /\ call = "pistacking"
    /\ pc = "done"
    /\ \E rec \in Range(ret) :
           vecangle(rec.proteinring.normal, rec.ligandring.normal) > Deg90

\* C8: every record of water_bridges combines an acceptor-water and a
\* donor-water half-bridge of one and the same water oxygen, in both
\* directions: all its measurements are taken against the water it names,
\* its acceptor and donor come from opposite sides.
C8_WaterBridges ==
    (call = "water_bridges" /\ pc = "done") =>
        \A r \in Range(ret) :
            /\ \E w \in Range(args.water) :
                   /\ r.water = w.oxy
                   /\ r.distance_aw = euclidean3d(r.a.coords, w.oxy.coords)
                   /\ r.distance_dw = euclidean3d(r.d.coords, w.oxy.coords)
                   /\ r.d_angle = vecangle(vector(r.h.coords, r.d.coords),
                                           vector(r.h.coords, w.oxy.coords))
            /\ LET hba == IF r.protisdon THEN args.lig_hba ELSE args.bs_hba
                   hbd == IF r.protisdon THEN args.bs_hbd ELSE args.lig_hbd
               IN /\ \E acc \in Range(hba) : r.a = acc.a
                  /\ \E don \in Range(hbd) : r.d = don.d /\ r.h = don.h

\* a call with two waters has returned bridges in both directions, over
\* different waters
C8_Witness ==
    /\ call = "water_bridges"
    /\ pc = "done"
    /\ Len(args.water) = 2
    /\ \E r1 \in Range(ret) : \E r2 \in Range(ret) :
           r1.protisdon /\ ~r2.protisdon /\ r1.water # r2.water

\* C9: saltbridge returns exactly one record for each pair of a positive and
\* a negative center closer than SALTBRIDGE_DIST_MAX and none for the other
\* pairs; protispos of a record is the flag of the call, its distance the
\* distance of the centers, its residue that of the positive center when
\* protispos is true and of the negative center otherwise.
C9_SaltBridge ==
    (call = "saltbridge" /\ pc = "done") =>
        /\ \A p \in Range(args.poscenter) : \A n \in Range(args.negcenter) :
               LET Of(r) == r.positive = p /\ r.negative = n
               IN Count(ret, Of) =
                      IF euclidean3d(p.center, n.center) < config.SALTBRIDGE_DIST_MAX
                      THEN 1 ELSE 0
        /\ \A r \in Range(ret) :
               LET side == IF args.protispos THEN r.positive ELSE r.negative
               IN /\ r.positive \in Range(args.poscenter)
                  /\ r.negative \in Range(args.negcenter)
                  /\ r.protispos = args.protispos
                  /\ r.distance = euclidean3d(r.positive.center, r.negative.center)
                  /\ r.resnr = side.resnr
                  /\ r.restype = side.restype
                  /\ r.reschain = side.reschain

\* a call with a false flag has returned a record while a pair at exactly
\* SALTBRIDGE_DIST_MAX got none
C9_Witness ==
    /\ call = "saltbridge"
    /\ pc = "done"
    /\ ~args.protispos
    /\ ret # <<>>
    /\ \E p \in Range(args.poscenter) : \E n \in Range(args.negcenter) :
           euclidean3d(p.center, n.center) = config.SALTBRIDGE_DIST_MAX

\* the two angles of an acceptor/donor pair, as halogen measures them
AccAngle(acc, don) ==
    vecangle(vector(acc.o.coords, acc.y.coords), vector(acc.o.coords, don.x.coords))

DonAngle(acc, don) ==
    vecangle(vector(don.x.coords, acc.o.coords), vector(don.x.coords, don.c.coords))

\* C10: halogen emits a record for an acceptor/donor pair exactly when the
\* halogen-oxygen distance is below HALOGEN_DIST_MAX, the acceptor angle is
\* less than HALOGEN_ANGLE_DEV away from HALOGEN_ACC_ANGLE and the donor angle
\* is less than HALOGEN_ANGLE_DEV away from HALOGEN_DON_ANGLE; a pair that
\* passes one of the two angle checks only gets no record.
C10_Halogen ==
    (call = "halogen" /\ pc = "done") =>
        \A acc \in Range(args.acceptor) : \A don \in Range(args.donor) :
            LET emitted == \E r \in Range(ret) : r.acc = acc /\ r.don = don
                acc_ok == Abs(AccAngle(acc, don) - config.HALOGEN_ACC_ANGLE)
                              < config.HALOGEN_ANGLE_DEV
                don_ok == Abs(DonAngle(acc, don) - config.HALOGEN_DON_ANGLE)
                              < config.HALOGEN_ANGLE_DEV
                near == euclidean3d(acc.o.coords, don.x.coords) < config.HALOGEN_DIST_MAX
            IN /\ emitted <=> (near /\ acc_ok /\ don_ok)
               /\ (acc_ok /\ ~don_ok) \/ (~acc_ok /\ don_ok) => ~emitted

\* a call has returned a record while a pair close enough that passes one
\* angle check only got none
C10_Witness ==
    /\ call = "halogen"
    /\ pc = "done"
    /\ ret # <<>>
    /\ \E acc \in Range(args.acceptor) : \E don \in Range(args.donor) :
           /\ euclidean3d(acc.o.coords, don.x.coords) < config.HALOGEN_DIST_MAX
           /\ halogen_acc_ok(AccAngle(acc, don)) # halogen_don_ok(DonAngle(acc, don))
           /\ ~\E r \in Range(ret) : r.acc = acc /\ r.don = don

(***************************************************************************)
(* The order of the records                                                *)
(***************************************************************************)
\* the position in the sequence s of its element that satisfies Is
Pos(s, Is(_)) == CHOOSE k \in 1..Len(s) : Is(s[k])

\* lexicographic order of two tuples of numbers of the same length
RECURSIVE LexLess(_, _)
LexLess(x, y) ==
    /\ x # <<>>
    /\ \/ Head(x) < Head(y)
       \/ Head(x) = Head(y) /\ LexLess(Tail(x), Tail(y))

\* the positions, in the arguments of the call, of what the record r combines,
\* in the order of the loops of the detector (outermost first)
LoopKey(r) ==
    CASE call = "hydrophobic_interactions" ->
             <<Pos(args.atom_set_a, LAMBDA a : a.atom = r.bsatom),
               Pos(args.atom_set_b, LAMBDA b : b.atom = r.ligatom)>>
      [] call = "hbonds" ->
             <<Pos(args.acceptors, LAMBDA acc : acc.a = r.a),
               Pos(args.donor_pairs, LAMBDA don : don.d = r.d /\ don.h = r.h)>>
      [] call = "pistacking" ->
             <<Pos(args.rings_bs, LAMBDA x : x = r.proteinring),
               Pos(args.rings_lig, LAMBDA x : x = r.ligandring),
               IF r.type = "P" THEN 1 ELSE 2>>
      [] call = "pication" ->
             <<Pos(args.rings, LAMBDA x : x = r.ring),
               Pos(args.pos_charged, LAMBDA x : x = r.charge)>>
      [] call = "saltbridge" ->
             <<Pos(args.poscenter, LAMBDA x : x = r.positive),
               Pos(args.negcenter, LAMBDA x : x = r.negative)>>
      [] call = "halogen" ->
             <<Pos(args.acceptor, LAMBDA x : x = r.acc),
               Pos(args.donor, LAMBDA x : x = r.don)>>
      [] call = "water_bridges" ->
             IF r.protisdon
             THEN <<1, Pos(args.water, LAMBDA w : w.oxy = r.water),
                    Pos(args.lig_hba, LAMBDA acc : acc.a = r.a),
                    Pos(args.bs_hbd, LAMBDA don : don.d = r.d /\ don.h = r.h)>>
             ELSE <<2, Pos(args.water, LAMBDA w : w.oxy = r.water),
                    Pos(args.bs_hba, LAMBDA acc : acc.a = r.a),
                    Pos(args.lig_hbd, LAMBDA don : don.d = r.d /\ don.h = r.h)>>

\* the positions of the binding-site element and of the ligand element of the
\* record r, binding site first
BsLigKey(r) ==
    CASE call = "hydrophobic_interactions" -> LoopKey(r)
      [] call = "hbonds" ->
             IF r.protisdon THEN <<LoopKey(r)[2], LoopKey(r)[1]>> ELSE LoopKey(r)
      [] call = "pistacking" -> <<LoopKey(r)[1], LoopKey(r)[2]>>
      [] call = "pication" ->
             IF r.protcharged THEN <<LoopKey(r)[2], LoopKey(r)[1]>> ELSE LoopKey(r)
      [] call = "saltbridge" ->
             IF r.protispos THEN LoopKey(r) ELSE <<LoopKey(r)[2], LoopKey(r)[1]>>
      [] call = "halogen" -> LoopKey(r)
      [] call = "water_bridges" ->
             IF r.protisdon THEN <<1, LoopKey(r)[4], LoopKey(r)[3]>>
             ELSE <<2, LoopKey(r)[3], LoopKey(r)[4]>>

\* C11 (as claimed): every detector returns its records in the order of the
\* cartesian product with the binding-site collection as outer loop and the
\* ligand collection as inner loop; so do water_bridges (in each of its two
\* directions) and pication.
C11_BsOuterOrder ==
    pc = "done" =>
        \A k \in 1..(Len(ret) - 1) :
            BsLigKey(ret[k]) = BsLigKey(ret[k + 1])
            \/ LexLess(BsLigKey(ret[k]), BsLigKey(ret[k + 1]))

\* the records of the call with its first collection given twice over (for
\* water_bridges: with the acceptors of both sides given twice over)
Repeated ==
    CASE call = "hydrophobic_interactions" ->
             hydrophobic_interactions(args.atom_set_a \o args.atom_set_a, args.atom_set_b)
      [] call = "hbonds" ->
             hbonds(args.acceptors \o args.acceptors, args.donor_pairs, args.protisdon,
                    args.typ)
      [] call = "pistacking" ->
             pistacking(args.rings_bs \o args.rings_bs, args.rings_lig)
      [] call = "pication" ->
             pication(args.rings \o args.rings, args.pos_charged, args.protcharged)
      [] call = "saltbridge" ->
             saltbridge(args.poscenter \o args.poscenter, args.negcenter, args.protispos)
      [] call = "halogen" ->
             halogen(args.acceptor \o args.acceptor, args.donor)
      [] call = "water_bridges" ->
             water_bridges(args.bs_hba \o args.bs_hba, args.lig_hba \o args.lig_hba,
                           args.bs_hbd, args.lig_hbd, args.water)

\* C11 (amended): every detector returns its records in the order of its own
\* loops and merges no duplicates (a collection given twice over doubles the
\* records): first argument outer and second
\* inner for hydrophobic_interactions, hbonds, pistacking (P before T for one
\* pair), pication, saltbridge and halogen; for water_bridges the bridges of
\* a ligand acceptor and a protein donor first, by water, ligand acceptor
\* and protein donor, then those of a protein acceptor and a ligand donor, by
\* water, protein acceptor and ligand donor.
C11_LoopOrder ==
    pc = "done" =>
        /\ \A k \in 1..(Len(ret) - 1) : LexLess(LoopKey(ret[k]), LoopKey(ret[k + 1]))
        /\ Len(Repeated) = 2 * Len(ret)

\* water_bridges has returned the bridges of two ligand acceptors and two
\* protein donors over one water
C11_Witness ==
    /\ pc = "done"
    /\ call = "water_bridges"
    /\ Len(ret) >= 4
    /\ \E k \in 1..(Len(ret) - 1) :
           /\ ret[k].protisdon /\ ret[k + 1].protisdon
           /\ ret[k].a = ret[k + 1].a
           /\ ret[k].d # ret[k + 1].d

\* the doubles cluster_doubles has processed so far
Processed == SubSeq(args.double_list, 1, cnum)

\* the elements of the processed doubles
Seen == UNION {{Processed[k][1], Processed[k][2]} : k \in 1..Len(Processed)}

\* S with every element that shares a processed double with one of S
Linked(S) ==
    S \cup {x \in Seen : \E k \in 1..Len(Processed) :
                {Processed[k][1], Processed[k][2]} \cap S # {}
                /\ x \in {Processed[k][1], Processed[k][2]}}

\* the elements a chain of processed doubles links to S
RECURSIVE Grow(_)
Grow(S) == IF Linked(S) = S THEN S ELSE Grow(Linked(S))

\* C12: during and after cluster_doubles the clusters are the connected
\* components of the doubles processed so far: they are pairwise disjoint,
\* every seen element is in exactly one of them, two elements share a
\* cluster exactly when a chain of doubles links them, location maps every
\* seen element to the position of the cluster that holds it, and the
\* returned tuples are these clusters.
C12_Components ==
    call = "cluster_doubles" =>
        /\ \A i, j \in 1..Len(clusters) : i # j => clusters[i] \cap clusters[j] = {}
        /\ UNION {clusters[i] : i \in 1..Len(clusters)} = Seen
        /\ \A i \in 1..Len(clusters) : \A x \in clusters[i] : clusters[i] = Grow({x})
        /\ DOMAIN location = Seen
        /\ \A x \in Seen : /\ location[x] \in 0..(Len(clusters) - 1)
                           /\ x \in clusters[location[x] + 1]
        /\ pc = "done" =>
               /\ Len(ret) = Len(clusters)
               /\ \A k \in 1..Len(ret) :
                      /\ {ret[k][n] : n \in 1..Len(ret[k])} = clusters[k]
                      /\ Len(ret[k]) = Cardinality(clusters[k])

\* cluster_doubles has merged two clusters through a later double and moved
\* the third cluster down one position
C12_Witness ==
    /\ call = "cluster_doubles"
    /\ pc = "done"
    /\ args.double_list = << <<1, 2>>, <<3, 4>>, <<5, 6>>, <<2, 3>> >>
    /\ Len(ret) = 2
    /\ location[5] = 1
    /\ ret[1] = <<1, 2, 3, 4>>

\* a record without its complex number
Strip(r) == [f \in DOMAIN r \ {"complexnum"} |-> r[f]]

\* the records of the sequence s that belong to the metal m, complex number dropped
RecordsOf(s, m) == [k \in 1..Len(SelectSeq(s, LAMBDA r : r.metal = m.m)) |->
                       Strip(SelectSeq(s, LAMBDA r : r.metal = m.m)[k])]

\* C13: metals are classified independently: the records a call returns for
\* one of its metals (targets, geometry, coordination number, RMS and
\* distances) are the records metal_complexation returns for that metal
\* given alone with the same targets; a call that aborts returns no record.
C13_Independent ==
    (call = "metal_complexation" /\ pc \in {"done", "error"}) =>
        \A k \in 1..Len(args.metals) :
            LET alone == metal_complexation(<<args.metals[k]>>, args.metal_binding_lig,
                                            args.metal_binding_bs)
            IN ~alone.raised =>
                   RecordsOf(IF pc = "done" THEN ret ELSE <<>>, args.metals[k])
                       = RecordsOf(alone.pairings, args.metals[k])

\* the entries of pairings_dict that go through the decision walk
Walked == {entry \in Entries : Len(entry.contact_pairs) >= 2}

\* the walk result final is the candidate total
Chose(final, total) ==
    /\ ~final.error
    /\ final.final_geom = total.geometry
    /\ final.final_coo = total.coordination
    /\ final.rms = total.rms
    /\ final.excluded = total.excluded

\* C14 as stated: the candidate at position i is accepted when its RMS
\* exceeds the RMS of the candidate at position i+1 by more than 0.5,
\* otherwise the candidate at i+1 is chosen when its RMS is below 3.5,
\* otherwise the walk moves on; the first position at which a rule applies
\* fixes the result.
C14_ThisExceedsNext ==
    (call = "metal_complexation" /\ pc \in {"classify", "done", "error"}) =>
        \A entry \in Walked :
            LET all_total == metal_ranked(entry.metal, entry.contact_pairs)
                final == metal_final(entry.metal, entry.contact_pairs)
                This(i) == all_total[i].rms - all_total[i + 1].rms > DiffToNextMin
                Next_(i) == all_total[i + 1].rms < NextRmsMax
            IN \A i \in 1..(Len(all_total) - 1) :
                   ((\A j \in 1..(i - 1) : ~This(j) /\ ~Next_(j)) /\ (This(i) \/ Next_(i)))
                   => Chose(final, IF This(i) THEN all_total[i] ELSE all_total[i + 1])

\* C14 (amended): the candidate at position i is accepted when the RMS of
\* the candidate at position i+1 exceeds its RMS by more than 0.5, otherwise
\* the candidate at i+1 is chosen when its RMS is below 3.5, otherwise the
\* walk moves on; the first position at which a rule applies fixes the
\* result.
C14_NextExceedsThis ==
    (call = "metal_complexation" /\ pc \in {"classify", "done", "error"}) =>
        \A entry \in Walked :
            LET all_total == metal_ranked(entry.metal, entry.contact_pairs)
                final == metal_final(entry.metal, entry.contact_pairs)
                This(i) == all_total[i + 1].rms - all_total[i].rms > DiffToNextMin
                Next_(i) == all_total[i + 1].rms < NextRmsMax
            IN \A i \in 1..(Len(all_total) - 1) :
                   ((\A j \in 1..(i - 1) : ~This(j) /\ ~Next_(j)) /\ (This(i) \/ Next_(i)))
                   => Chose(final, IF This(i) THEN all_total[i] ELSE all_total[i + 1])

\* a call has returned records of a metal whose walk moved on from the first
\* position, where the first candidate had the larger RMS, and accepted a
\* later candidate because the one after it was worse by more than 0.5
C14_Witness ==
    /\ call = "metal_complexation"
    /\ pc = "done"
    /\ \E entry \in Walked :
           LET all_total == metal_ranked(entry.metal, entry.contact_pairs)
           IN /\ all_total[1].rms - all_total[2].rms > DiffToNextMin
              /\ all_total[2].rms >= NextRmsMax
              /\ \E i \in 2..(Len(all_total) - 1) :
                     /\ all_total[i + 1].rms - all_total[i].rms > DiffToNextMin
                     /\ \E r \in Range(ret) :
                            /\ r.metal = entry.metal
                            /\ r.geometry = all_total[i].geometry
                            /\ r.rms = all_total[i].rms

\* the place of a geometry in the order of evaluation
Evaluated(geometry) == CHOOSE k \in 1..Len(metal_configs) : metal_configs[k].geometry = geometry

\* C15: for each metal with two or more targets the ranked list holds all
\* eight (geometry, coordination) candidates, in ascending order of the
\* absolute difference between the number of qualifying contacts of the
\* metal and the coordination number; candidates of equal difference are in
\* the order of evaluation (coordination 6 down to 2, catalogue order).
C15_Ranked ==
    (call = "metal_complexation" /\ pc \in {"classify", "done", "error"}) =>
        \A entry \in Walked :
            LET all_total == metal_ranked(entry.metal, entry.contact_pairs)
                Diff(k) == Abs(Len(entry.contact_pairs) - all_total[k].coordination)
            IN /\ Len(all_total) = 8
               /\ {<<all_total[k].geometry, all_total[k].coordination>> : k \in 1..8}
                      = {<<metal_configs[k].geometry, metal_configs[k].coo>> : k \in 1..8}
               /\ \A k \in 1..8 :
                      all_total[k].diff_targets
                          = Len(entry.contact_pairs) - all_total[k].coordination
               /\ \A k \in 1..7 :
                      \/ Diff(k) < Diff(k + 1)
                      \/ /\ Diff(k) = Diff(k + 1)
                         /\ Evaluated(all_total[k].geometry)
                                < Evaluated(all_total[k + 1].geometry)

\* a call has returned records of a metal with three contacts, whose ranked
\* list starts with the two geometries of coordination 3 and has the
\* candidates of coordination 4 before those of coordination 2 and 5
C15_Witness ==
    /\ call = "metal_complexation"
    /\ pc = "done"
    /\ \E entry \in Walked :
           LET all_total == metal_ranked(entry.metal, entry.contact_pairs)
           IN /\ Len(entry.contact_pairs) = 3
              /\ [k \in 1..8 |-> all_total[k].geometry]
                     = << "trigonal.planar", "trigonal.pyramidal", "tetrahedral",
                          "square.planar", "linear", "trigonal.bipyramidal",
                          "square.pyramidal", "octahedral" >>
              /\ \E r \in Range(ret) : r.metal = entry.metal

\* C20: in the greedy assignment of one (geometry, coordination) candidate
\* no target is given to two signatures, a target's observed angles are
\* paired with no more ideal angles than there are observed angles, the
\* excluded set is exactly the distinct targets given to no signature and
\* has max(0, distinct targets - coordination number) elements, and a
\* signature for which no unused target is left has no target and adds the
\* sentinel score 999 to the scores whose mean is the candidate's RMS.
C20_Greedy ==
    (call = "metal_complexation" /\ pc \in {"classify", "done", "error"}) =>
        \A entry \in Walked :
            LET angles_dict ==
                    metal_angles(metal_vectors_from(entry.metal, entry.contact_pairs, 1, <<>>))
                distinct == {angles_dict[k].idx : k \in 1..Len(angles_dict)}
            IN \A g \in 1..Len(metal_configs) :
                   LET c == metal_configs[g]
                       signature == ideal_angles(c.geometry)
                       fit == metal_assign(signature, angles_dict, 1, <<>>, <<>>)
                       used == fit.used_up_targets
                       gdata == metal_gdata(c, angles_dict, Len(entry.contact_pairs))
                   IN /\ Len(used) = c.coo
                      /\ Len(fit.geometry_scores) = c.coo
                      /\ \A s, t \in 1..Len(used) :
                             (s # t /\ used[s] # 0) => used[s] # used[t]
                      /\ \A s \in 1..Len(used) :
                             /\ used[s] # 0 => used[s] \in distinct
                             /\ used[s] = 0 <=> s > Cardinality(distinct)
                             /\ used[s] = 0 => fit.geometry_scores[s] = NoTargetScore
                      /\ \A s \in 1..Len(signature) : \A k \in 1..Len(angles_dict) :
                             Len(metal_target_scores(signature[s], angles_dict[k].angles, 1, {}))
                                 = Min(Len(signature[s]), Len(angles_dict[k].angles))
                      /\ Range(gdata.excluded) = distinct \ Range(used)
                      /\ Len(gdata.excluded) = Cardinality(Range(gdata.excluded))
                      /\ Len(gdata.excluded)
                             = (IF Cardinality(distinct) > c.coo
                                THEN Cardinality(distinct) - c.coo ELSE 0)
                      /\ gdata.rms = Sum(fit.geometry_scores) * (MeanDen \div c.coo)

\* a call has returned records of a metal with five distinct targets: its
\* tetrahedral candidate excludes one target, and the sixth signature of its
\* octahedral candidate finds no target left and scores 999
C20_Witness ==
    /\ call = "metal_complexation"
    /\ pc = "done"
    /\ \E entry \in Walked :
           LET angles_dict ==
                   metal_angles(metal_vectors_from(entry.metal, entry.contact_pairs, 1, <<>>))
               oct == metal_assign(ideal_angles("octahedral"), angles_dict, 1, <<>>, <<>>)
               tet == metal_gdata(metal_configs[4], angles_dict, Len(entry.contact_pairs))
           IN /\ Len(angles_dict) = 5
              /\ Len(tet.excluded) = 1
              /\ oct.used_up_targets[6] = 0
              /\ oct.geometry_scores[6] = NoTargetScore
              /\ \E r \in Range(ret) : r.metal = entry.metal

\* the contacts the grouping loop finds for the metal m: the targets closer
\* than METAL_DIST_MAX
Qualifying(m) ==
    SelectSeq(args.metal_binding_lig \o args.metal_binding_bs,
              LAMBDA t : euclidean3d(m.m.coords, t.atom.coords) < config.METAL_DIST_MAX)

\* the records the call has returned (none when it did not return) for the metal m
Returned(m) == SelectSeq(IF pc = "done" THEN ret ELSE <<>>, LAMBDA r : r.metal = m.m)

\* C18: a call of metal_complexation that has ended holds no record for a
\* metal whose qualifying targets are all water, none for a metal without a
\* target closer than METAL_DIST_MAX, and at least one record for every
\* metal that has a qualifying target which is not water.
C18_WaterOnly ==
    (call = "metal_complexation" /\ pc \in {"done", "error"}) =>
        \A k \in 1..Len(args.metals) :
            LET m == args.metals[k]
                located == {Qualifying(m)[j].location : j \in 1..Len(Qualifying(m))}
            IN /\ located \subseteq {"water"} => Returned(m) = <<>>
               /\ located \ {"water"} # {} => Returned(m) # <<>>

\* the contacts of a complex that are left after the excluded targets are taken out
Retained(contact_pairs, excluded) ==
    SelectSeq(contact_pairs, LAMBDA c : c.target.atom.idx \notin Range(excluded))

\* C19: for every metal complex that is retained (not all water) and has a
\* chosen candidate, a call of metal_complexation that has ended holds exactly
\* one record for each contact whose target is not in the excluded set of
\* the chosen candidate, in the order of the contacts, and none for an
\* excluded target; every record carries the chosen coordination number,
\* geometry and RMS, the contact's own distance, and num_partners equal to
\* the number of all qualifying contacts of the metal.
C19_Records ==
    (call = "metal_complexation" /\ pc \in {"done", "error"}) =>
        \A entry \in Entries :
            LET final == metal_final(entry.metal, entry.contact_pairs)
                kept == Retained(entry.contact_pairs, final.excluded)
                recs == SelectSeq(IF pc = "done" THEN ret ELSE <<>>,
                                  LAMBDA r : r.metal = entry.metal)
            IN (~metal_only_water(entry.contact_pairs) /\ ~final.error) =>
                   /\ Len(recs) = Len(kept)
                   /\ \A k \in 1..Len(recs) :
                          /\ recs[k].target = kept[k].target
                          /\ recs[k].distance = kept[k].distance
                          /\ recs[k].coordination_num = final.final_coo
                          /\ recs[k].geometry = final.final_geom
                          /\ recs[k].rms = final.rms
                          /\ recs[k].num_partners = Len(entry.contact_pairs)

\* the number of returned records of the ring at position i and the charge
\* center at position j
PiCationRecords(i, j) ==
    Count(ret, LAMBDA r : r.ring = args.rings[i] /\ r.charge = args.pos_charged[j])

\* the pair passes the checks that lead to a record
PiCationAccepted(ring, p) ==
    /\ pication_near(ring, p)
    /\ pication_tertamine(p) => ~(pication_amine_angle(ring, p) > AmineAngleMax)

\* a tertiary amine of the ligand that passes the distance and offset checks
PiCationStops(ring, p) ==
    /\ pication_near(ring, p)
    /\ p.type_name = "lcharge"
    /\ p.fgroup = "tertamine"

\* C16 as stated: once a tertiary amine has passed the distance and offset
\* checks against a ring, no later ring is tested against that charge
\* center, and the other charge centers are tested against every ring: a
\* pair has one record when it is accepted and no earlier ring stopped the
\* scanning for its charge center, and none otherwise.
C16_StopsForCharge ==
    (call = "pication" /\ pc = "done") =>
        \A i \in 1..Len(args.rings) : \A j \in 1..Len(args.pos_charged) :
            PiCationRecords(i, j) =
                (IF /\ PiCationAccepted(args.rings[i], args.pos_charged[j])
                    /\ \A h \in 1..(i - 1) :
                           ~PiCationStops(args.rings[h], args.pos_charged[j])
                 THEN 1 ELSE 0)

\* C16 (amended): once a tertiary amine has passed the distance and offset
\* checks against a ring, no later charge center is tested against that
\* ring, accepted or not, and every ring is tested against the charge centers
\* in order up to its own first such amine: a pair has one record when it is
\* accepted and no earlier charge center stopped the scanning for its ring,
\* and none otherwise.
C16_StopsForRing ==
    (call = "pication" /\ pc = "done") =>
        \A i \in 1..Len(args.rings) : \A j \in 1..Len(args.pos_charged) :
            PiCationRecords(i, j) =
                (IF /\ PiCationAccepted(args.rings[i], args.pos_charged[j])
                    /\ \A h \in 1..(j - 1) :
                           ~PiCationStops(args.rings[i], args.pos_charged[h])
                 THEN 1 ELSE 0)

\* pication has returned from two rings and two charge centers: the first,
\* a tertiary amine, has a record with each ring, and the second passes the
\* checks against both rings and has no record
C16_Witness ==
    /\ call = "pication"
    /\ pc = "done"
    /\ Len(args.rings) = 2
    /\ Len(args.pos_charged) = 2
    /\ \A i \in 1..2 :
           /\ PiCationStops(args.rings[i], args.pos_charged[1])
           /\ PiCationRecords(i, 1) = 1
           /\ PiCationAccepted(args.rings[i], args.pos_charged[2])
           /\ PiCationRecords(i, 2) = 0

\* the number of returned records of type t for the rings r and l
PiStackRecords(r, l, t) ==
    Count(ret, LAMBDA x : x.proteinring = r /\ x.ligandring = l /\ x.type = t)

\* C17: for every ring pair with center distance below PISTACK_DIST_MAX and
\* offset below PISTACK_OFFSET_MAX, pistacking returns one 'P' record when
\* the folded angle is less than PISTACK_ANG_DEV away from 0 degrees, a
\* folded angle of exactly 0 included, and none otherwise; one 'T' record
\* when it is less than PISTACK_ANG_DEV away from 90 degrees, and none
\* otherwise; so at most two records for a pair.
C17_ParallelAtZero ==
    (call = "pistacking" /\ pc = "done") =>
        \A r \in Range(args.rings_bs) : \A l \in Range(args.rings_lig) :
            LET a == pistack_fold(vecangle(r.normal, l.normal))
            IN (/\ euclidean3d(r.center, l.center) < config.PISTACK_DIST_MAX
                /\ pistack_offset(r, l) < config.PISTACK_OFFSET_MAX)
               => /\ PiStackRecords(r, l, "P")
                         = (IF Abs(a - 0) < config.PISTACK_ANG_DEV THEN 1 ELSE 0)
                  /\ PiStackRecords(r, l, "T")
                         = (IF Abs(a - Deg90) < config.PISTACK_ANG_DEV THEN 1 ELSE 0)
                  /\ PiStackRecords(r, l, "P") + PiStackRecords(r, l, "T") <= 2

\* the metals that have a record among the returned ones
Complexed == {r.metal : r \in Range(ret)}

\* C21: in the records a call of metal_complexation returns, the records of
\* one metal carry the same complexnum, records of different metals carry
\* different ones, and the values are 1, 2, ..., k without a gap, k being
\* the number of metals that have records.
C21_Sequential ==
    (call = "metal_complexation" /\ pc = "done") =>
        /\ \A r, q \in Range(ret) : (r.metal = q.metal) <=> (r.complexnum = q.complexnum)
        /\ {r.complexnum : r \in Range(ret)} = 1..Cardinality(Complexed)

====
